---- MODULE Spec2Model ----
(***************************************************************************)
(* Ride lifecycle of the carpooling application (src/app.py).              *)
(*                                                                         *)
(* The application is a Streamlit script: every user interaction re-runs   *)
(* CarpoolingApp.run() for that browser session.  Several sessions share   *)
(* one ledger (the RideSharing contract).  The contract's source is not    *)
(* part of src/; its functions are modelled from the interface and the     *)
(* guards the specification gives for them (sections 4.2, 4.4 and 6).      *)
(*                                                                         *)
(* Amounts are counted in units of 10^14 wei (0.0001 ether), the fare of   *)
(* one routed meter at 0.1 ether per kilometer.                            *)
(***************************************************************************)
EXTENDS Integers, Sequences, FiniteSets, TLC

\* ------------------------------------------------------------ bounds
NumAccounts == 3
MaxRides == 2
\* Opening balance of every account, in units of 10^14 wei.
InitBalance == 20000
\* Most messages kept in the chat logs of a session.
MaxMsgs == 2
\* Seconds the clock is followed for.
MaxClock == 1
\* Longest routed distance (meters) whose conversion is followed, besides
\* the distances of RouteMeters.
MaxMeters == 2100

\* Two browser sessions, each with its own st.session_state.
Sessions == {1, 2}
\* self.accounts: the keyring of the node (src/app.py:40).
Accounts == 1..NumAccounts
\* Routed distances (meters) the routing provider may answer with.
RouteMeters == {10000}

\* ------------------------------------------------------------ ledger values
\* None of st.session_state.account, and the ledger's unset address.
ZeroAddress == 0
\* uint8 status of getRide.
Requested == 0
Accepted == 1
Completed == 2

Roles == {"Passenger", "Driver"}
NoRole == "None"
NoUser == <<>>
\* An e-mail address is an opaque key; the one registered for a role and a
\* wallet is written <<role, wallet>>.
Emails == {<<"Passenger", 1>>, <<"Driver", 1>>, <<"Driver", 2>>, <<"Driver", 3>>}
UnknownEmail == <<"Passenger", 0>>
Password == "secret"
WrongPassword == "guess"

VARIABLES
    \* the ledger (RideSharing contract)
    rides,          \* sequence of rides; ride_id is the index
    balance,        \* balance of every account
    escrow,         \* value held by the contract
    accepts,        \* per ride: accounts whose acceptRide was mined successfully, in order
    \* st.session_state of every session
    authenticated,
    account,
    user_type,
    current_user,
    users,
    coords,         \* pickup_coords and dropoff_coords are both set
    \* what the last run of the script rendered for the session
    quote,          \* routed distance shown (0: no route, no "Request Ride" button)
    availView,      \* rides shown with an "Accept Ride" button
    activeView,     \* rides shown with a "Complete Ride" button
    chatView,       \* rides shown with a chat box
    result,         \* message of the last ledger transaction of the run
    \* the run in progress
    pc,
    pending,
    \* st.session_state[f"ride_{ride_id}_messages"] of every session
    messages,
    \* the last listing loop in which ride lookups could fail
    listed,
    \* the last routed distance converted on the request path
    trip,
    \* datetime.now(), in seconds
    now

ledger == <<rides, balance, escrow, accepts>>
auth == <<authenticated, account, user_type, current_user, users>>
views == <<quote, availView, activeView, chatView, result>>
extra == <<messages, listed, trip, now>>
vars == <<rides, balance, escrow, accepts, authenticated, account, user_type,
          current_user, users, coords, quote, availView, activeView, chatView,
          result, pc, pending, messages, listed, trip, now>>

NoResult == [op |-> "none", ride |-> 0, res |-> "none"]
\* No chat log has been created, no listing loop has met a failing lookup,
\* no distance has been converted.
NoMessages == [s \in Sessions |-> [r \in 1..MaxRides |-> <<>>]]
NoListing == [tab |-> "none", ids |-> <<>>, faults |-> <<>>, shown |-> <<>>, errors |-> <<>>]
NoTrip == [routed |-> 0, meters |-> 0, fare |-> 0, done |-> FALSE]

Range(q) == {q[i] : i \in 1..Len(q)}

RECURSIVE SumSeq(_)
SumSeq(q) == IF q = <<>> THEN 0 ELSE Head(q) + SumSeq(Tail(q))

\* ------------------------------------------------------------ the contract
\* getRide(rideId): the tuple (passenger, driver, distance, status, fare).
getRide(rs, r) ==
    <<rs[r].passenger, rs[r].driver, rs[r].distance, rs[r].status, rs[r].fare>>

Ids(rs) == [i \in 1..Len(rs) |-> i]

\* getAvailableRides(): all Requested rides.
getAvailableRides(rs) ==
    SelectSeq(Ids(rs), LAMBDA r : rs[r].status = Requested)

\* getUserActiveRides(a): Requested or Accepted, a is passenger or driver.
getUserActiveRides(rs, a) ==
    SelectSeq(Ids(rs), LAMBDA r : /\ rs[r].status \in {Requested, Accepted}
                                  /\ a \in {rs[r].passenger, rs[r].driver})

\* getUserCompletedRides(a): Completed, a is passenger or driver.
getUserCompletedRides(rs, a) ==
    SelectSeq(Ids(rs), LAMBDA r : /\ rs[r].status = Completed
                                  /\ a \in {rs[r].passenger, rs[r].driver})

\* Guard of requestRide: the value attached must be covered by the sender.
requestRideGuard(a, value) == balance[a] >= value

\* requestRide(distanceMeters) payable: the ride created.
requestRideNew(a, meters, value) ==
    [passenger |-> a, driver |-> ZeroAddress, distance |-> meters,
     status |-> Requested, fare |-> value]

\* acceptRide without the status check.
acceptRideGuardAnyStatus(r, caller) ==
    /\ r \in 1..Len(rides)
    /\ caller # rides[r].passenger

\* acceptRide without the check of the caller.
acceptRideGuardAnyCaller(r, caller) ==
    /\ r \in 1..Len(rides)
    /\ rides[r].status = Requested

\* Guard of acceptRide: the ride is Requested and the caller is not its passenger.
acceptRideGuard(r, caller) ==
    /\ r \in 1..Len(rides)
    /\ rides[r].status = Requested
    /\ caller # rides[r].passenger

\* Effect of acceptRide: binds the driver.
acceptRideEffect(r, caller) ==
    [rides EXCEPT ![r] = [@ EXCEPT !.driver = caller, !.status = Accepted]]

\* Guard of completeRide: the ride is Accepted and the caller is its driver.
completeRideGuard(r, caller) ==
    /\ r \in 1..Len(rides)
    /\ rides[r].status = Accepted
    /\ caller = rides[r].driver

\* completeRide releasing everything the contract holds.
releasedValueAll(r) == escrow

\* Value completeRide releases to the ride's driver: the ride's fare.
releasedValue(r) == rides[r].fare

\* completeRide that zeroes the fare it has paid out.
completeRideEffectClearsFare(r) ==
    [rides EXCEPT ![r] = [@ EXCEPT !.status = Completed, !.fare = 0]]

\* Effect of completeRide on the ride.
completeRideEffect(r) ==
    [rides EXCEPT ![r] = [@ EXCEPT !.status = Completed]]

\* ------------------------------------------------------------ the client
\* get_ride_details: getRide's tuple as a dictionary, None when the call reverts.
None == [none |-> TRUE]
\* get_ride_details with the first two fields of the tuple exchanged.
get_ride_detailsSwapped(rs, r) ==
    IF r \in 1..Len(rs)
    THEN LET ride == getRide(rs, r)
         IN  [passenger |-> ride[2], driver |-> ride[1], distance |-> ride[3],
              status |-> ride[4], fare |-> ride[5]]
    ELSE None

get_ride_details(rs, r) ==
    IF r \in 1..Len(rs)
    THEN LET ride == getRide(rs, r)
         IN  [passenger |-> ride[1], driver |-> ride[2], distance |-> ride[3],
              status |-> ride[4], fare |-> ride[5]]
    ELSE None

\* The rides a listing loop renders: those whose details could be fetched.
Hydrated(rs, ids) == SelectSeq(ids, LAMBDA r : get_ride_details(rs, r) # None)

\* accept_ride_tab: the rides offered with an "Accept Ride" button.
listAvailable(rs) == Hydrated(rs, getAvailableRides(rs))

\* The listings asked for web3.eth.default_account (the first account).
listingAddressDefault(acct) == 1

\* The address the active and completed listings are asked for.
listingAddress(acct) == acct

\* complete_ride_tab and chat_tab: the connected account's active rides.
listActive(rs, acct) == Hydrated(rs, getUserActiveRides(rs, listingAddress(acct)))

\* show_ride_history listing the active rides.
listCompletedActive(rs, acct) ==
    Hydrated(rs, getUserActiveRides(rs, listingAddress(acct)))

\* show_ride_history: the connected account's completed rides.
listCompleted(rs, acct) ==
    Hydrated(rs, getUserCompletedRides(rs, listingAddress(acct)))

\* floor(log2(m)) for m >= 1: the binary exponent of the double m.
RECURSIVE Log2(_)
Log2(m) == IF m <= 1 THEN 0 ELSE 1 + Log2(m \div 2)

RECURSIVE Pow2(_)
Pow2(e) == IF e = 0 THEN 1 ELSE 2 * Pow2(e - 1)

\* 2^e modulo 1000.
RECURSIVE Pow2Mod1000(_)
Pow2Mod1000(e) == IF e = 0 THEN 1 ELSE (2 * Pow2Mod1000(e - 1)) % 1000

\* request_ride_tab: distance_km = distance / 1000 and the product
\* distance_km * 1000, both rounded to IEEE-754 double precision (53-bit
\* significand, round to nearest).  With b = Log2(m), the quotient m / 1000
\* has binary exponent b - 9 when m * 2^9 >= 1000 * 2^b and b - 10 otherwise,
\* and its significand is m * 2^(52 - exponent) / 1000 rounded to an integer.
\* The rounding error r (the remainder of that division, taken as r - 1000
\* above 500) makes the exact product m - r * 2^(exponent - 52); it is
\* rounded to a multiple of 2^(b - 52), hence to a double below m exactly when
\* the exponent is b - 9 and 256 < r < 500.  (For the distances considered
\* here, below 2^22 m.)
productFallsShort(m) ==
    /\ m >= 1
    /\ LET b == Log2(m)
       IN  /\ m * 512 >= 1000 * Pow2(b)
           /\ LET r == ((m % 1000) * Pow2Mod1000(61 - b)) % 1000
              IN  256 < r /\ r < 500

\* A conversion that truncates the kilometers before multiplying.
distanceMetersWholeKm(m) == (m \div 1000) * 1000

\* request_ride_tab: distance_meters = int(distance_km * 1000) for a routed
\* distance of m whole meters; int() truncates toward zero.
distanceMeters(m) == IF productFallsShort(m) THEN m - 1 ELSE m

\* The rate 0.1 (ether per kilometer) in units of 10^14 wei.
FarePerKm == 1000

\* request_ride_tab: fare = to_wei(distance_km * 0.1, "ether"), to the nearest
\* unit of 10^14 wei.  The double-precision product can differ from a whole
\* number of units by a few wei; for the distances of RouteMeters it is exact.
computeFare(m) == (m * FarePerKm) \div 1000

\* The sender of a transaction: {"from": st.session_state.account}.
txFrom(s) == account[s]

\* A page that shows every tab to everyone.
TabsOfAnyone(utype) == {"request", "accept", "complete", "history", "chat"}

\* The tabs run() renders for the role of the logged-in user.
TabsOf(utype) ==
    IF utype = "Driver" THEN {"accept", "complete", "history", "chat"}
    ELSE IF utype = "Passenger" THEN {"request", "history", "chat"}
    ELSE {}

\* Answers of the routing provider in a run of request_ride_tab: a distance,
\* or 0 when the request fails.  The provider is asked only when the tab is
\* rendered and both coordinates are set.
RouteAnswers(isauth, utype, hascoords) ==
    IF isauth /\ "request" \in TabsOf(utype) /\ hascoords
    THEN RouteMeters \cup {0} ELSE {0}

\* What run() renders for a session: the tabs of its role, each listing read
\* from the ledger rs.
Render(s, isauth, acct, utype, rs, q) ==
    /\ quote' = [quote EXCEPT ![s] = q]
    /\ availView' = [availView EXCEPT ![s] =
            IF isauth /\ "accept" \in TabsOf(utype) THEN listAvailable(rs) ELSE <<>>]
    /\ activeView' = [activeView EXCEPT ![s] =
            IF isauth /\ "complete" \in TabsOf(utype) THEN listActive(rs, acct) ELSE <<>>]
    /\ chatView' = [chatView EXCEPT ![s] =
            IF isauth /\ "chat" \in TabsOf(utype) THEN listActive(rs, acct) ELSE <<>>]

Idle(s) == pc[s] = "idle"

\* ------------------------------------------------------------ initial state
\* The ride lifecycle is followed from the point where four users have signed
\* up in every session (register_tab): the owner of wallet 1 as a Passenger
\* and as a Driver, the owners of wallets 2 and 3 as Drivers.  SpecAuth below
\* starts from the empty dictionary and reaches this one.
SignedUp ==
    [e \in Emails |-> [password |-> Password, role |-> e[1], wallet |-> e[2]]]

\* The ledger and the sessions of the initial state.
Started ==
    /\ rides = <<>>
    /\ balance = [a \in Accounts |-> InitBalance]
    /\ escrow = 0
    /\ accepts = <<>>
    /\ authenticated = [s \in Sessions |-> FALSE]
    /\ account = [s \in Sessions |-> ZeroAddress]
    /\ user_type = [s \in Sessions |-> NoRole]
    /\ current_user = [s \in Sessions |-> NoUser]
    /\ users = [s \in Sessions |-> SignedUp]
    /\ coords = [s \in Sessions |-> FALSE]
    /\ quote = [s \in Sessions |-> 0]
    /\ availView = [s \in Sessions |-> <<>>]
    /\ activeView = [s \in Sessions |-> <<>>]
    /\ chatView = [s \in Sessions |-> <<>>]
    /\ result = [s \in Sessions |-> NoResult]
    /\ pc = [s \in Sessions |-> "idle"]
    /\ pending = [s \in Sessions |-> 0]

Init ==
    /\ Started
    /\ messages = NoMessages
    /\ listed = NoListing
    /\ trip = NoTrip
    /\ now = 0

\* ------------------------------------------------------------ authentication
\* handle_authentication: "Connect Wallet".
ConnectWallet(s, a) ==
    /\ Idle(s)
    /\ ~authenticated[s]
    /\ account' = [account EXCEPT ![s] = a]
    /\ authenticated' = [authenticated EXCEPT ![s] = TRUE]
    /\ Render(s, TRUE, a, user_type[s], rides, 0)
    /\ result' = [result EXCEPT ![s] = NoResult]
    /\ UNCHANGED <<ledger, user_type, current_user, users, coords, pc, pending>>
    /\ UNCHANGED extra

\* A login that does not compare the wallet.
LoginAcceptedAnyWallet(s, email, password) ==
    /\ email \in DOMAIN users[s]
    /\ users[s][email].password = password

\* login_tab: "Login" with an e-mail address and a password.
LoginAccepted(s, email, password) ==
    /\ email \in DOMAIN users[s]
    /\ users[s][email].password = password
    /\ users[s][email].wallet = account[s]

Login(s, email, password, q) ==
    /\ Idle(s)
    /\ authenticated[s]
    /\ user_type[s] = NoRole
    /\ LoginAccepted(s, email, password)
    /\ q \in RouteAnswers(TRUE, users[s][email].role, coords[s])
    /\ user_type' = [user_type EXCEPT ![s] = users[s][email].role]
    /\ current_user' = [current_user EXCEPT ![s] = users[s][email]]
    /\ Render(s, TRUE, account[s], users[s][email].role, rides, q)
    /\ result' = [result EXCEPT ![s] = NoResult]
    /\ UNCHANGED <<ledger, authenticated, account, users, coords, pc, pending>>
    /\ UNCHANGED extra

\* login_tab: a login that is turned down shows an error and changes nothing.
LoginRefused(s, email, password) ==
    /\ Idle(s)
    /\ authenticated[s]
    /\ user_type[s] = NoRole
    /\ ~LoginAccepted(s, email, password)
    /\ UNCHANGED vars

\* register_tab: "Sign Up" with an e-mail address, a password and a role; the
\* wallet stored is the connected account.  filled: name, e-mail and password
\* were given and the e-mail address is well formed.
RegisterAccepted(s, email, filled) ==
    /\ filled
    /\ email \notin DOMAIN users[s]

Register(s, email, password, role, filled) ==
    /\ Idle(s)
    /\ authenticated[s]
    /\ user_type[s] = NoRole
    /\ IF RegisterAccepted(s, email, filled)
       THEN users' = [users EXCEPT ![s] =
                [e \in DOMAIN @ \cup {email} |->
                    IF e = email
                    THEN [password |-> password, role |-> role, wallet |-> account[s]]
                    ELSE @[e]]]
       ELSE users' = users
    /\ UNCHANGED <<ledger, authenticated, account, user_type, current_user, coords,
                   views, pc, pending>>
    /\ UNCHANGED extra

\* handle_authentication: "Logout".
Logout(s) ==
    /\ Idle(s)
    /\ authenticated[s]
    /\ user_type[s] # NoRole
    /\ user_type' = [user_type EXCEPT ![s] = NoRole]
    /\ current_user' = [current_user EXCEPT ![s] = NoUser]
    /\ Render(s, TRUE, account[s], NoRole, rides, 0)
    /\ result' = [result EXCEPT ![s] = NoResult]
    /\ UNCHANGED <<ledger, authenticated, account, users, coords, pc, pending>>
    /\ UNCHANGED extra

\* handle_authentication: "Disconnect Wallet".
DisconnectWallet(s) ==
    /\ Idle(s)
    /\ authenticated[s]
    /\ authenticated' = [authenticated EXCEPT ![s] = FALSE]
    /\ account' = [account EXCEPT ![s] = ZeroAddress]
    /\ user_type' = [user_type EXCEPT ![s] = NoRole]
    /\ current_user' = [current_user EXCEPT ![s] = NoUser]
    /\ Render(s, FALSE, ZeroAddress, NoRole, rides, 0)
    /\ result' = [result EXCEPT ![s] = NoResult]
    /\ UNCHANGED <<ledger, users, coords, pc, pending>>
    /\ UNCHANGED extra

\* run(): a re-run of the script without a button pressed.
Rerun(s, q) ==
    /\ Idle(s)
    /\ authenticated[s]
    /\ user_type[s] # NoRole
    /\ q \in RouteAnswers(TRUE, user_type[s], coords[s])
    /\ Render(s, TRUE, account[s], user_type[s], rides, q)
    /\ result' = [result EXCEPT ![s] = NoResult]
    /\ UNCHANGED <<ledger, auth, coords, pc, pending>>
    /\ UNCHANGED extra

\* ------------------------------------------------------------ requesting
\* request_ride_tab: "Show Locations on Map".  geocoded: both place names
\* were given and resolved.
ShowLocations(s, geocoded, q) ==
    /\ Idle(s)
    /\ authenticated[s]
    /\ "request" \in TabsOf(user_type[s])
    /\ coords' = [coords EXCEPT ![s] = @ \/ geocoded]
    /\ q \in RouteAnswers(TRUE, user_type[s], coords'[s])
    /\ Render(s, TRUE, account[s], user_type[s], rides, q)
    /\ result' = [result EXCEPT ![s] = NoResult]
    /\ UNCHANGED <<ledger, auth, pc, pending>>
    /\ UNCHANGED extra

\* A run that submits on the strength of the route shown by the previous run.
requestSubmitsStale(s, q, pressed) == (q # 0 \/ quote[s] # 0) /\ pressed

\* The run of request_ride_tab submits requestRide: the route was obtained in
\* this run (q # 0) and "Request Ride" was pressed.
requestSubmits(s, q, pressed) == q # 0 /\ pressed

\* The message of a request whose transaction was mined.
requestOutcome(receipt_ok, decoded, ride_id) ==
    IF ~receipt_ok THEN [op |-> "request", ride |-> 0, res |-> "Error"]
    ELSE IF decoded THEN [op |-> "request", ride |-> ride_id, res |-> "ok"]
    ELSE [op |-> "request", ride |-> 0, res |-> "EventDecodeError"]

\* request_ride_tab: "Request Ride" pressed.  The run asks the routing
\* provider again (answer q), computes the fare and submits requestRide.
\* receipt_ok: wait_for_transaction_receipt returned; decoded: process_receipt
\* found the RideRequested event.
RequestRide(s, q, receipt_ok, decoded) ==
    /\ Idle(s)
    /\ authenticated[s]
    /\ "request" \in TabsOf(user_type[s])
    /\ coords[s]
    /\ quote[s] # 0
    /\ Len(rides) < MaxRides
    /\ q \in RouteAnswers(TRUE, user_type[s], coords[s])
    /\ LET a == txFrom(s)
           fare == computeFare(q)
           meters == distanceMeters(q)
           mined == requestSubmits(s, q, TRUE) /\ requestRideGuard(a, fare)
           rs == IF mined THEN Append(rides, requestRideNew(a, meters, fare)) ELSE rides
       IN  /\ rides' = rs
           /\ accepts' = IF mined THEN Append(accepts, <<>>) ELSE accepts
           /\ balance' = IF mined THEN [balance EXCEPT ![a] = @ - fare] ELSE balance
           /\ escrow' = IF mined THEN escrow + fare ELSE escrow
           /\ result' = [result EXCEPT ![s] =
                  IF ~requestSubmits(s, q, TRUE)
                  THEN [op |-> "request", ride |-> 0, res |-> "ProviderUnavailable"]
                  ELSE IF ~mined
                  THEN [op |-> "request", ride |-> 0, res |-> "Error"]
                  ELSE requestOutcome(receipt_ok, decoded, Len(rs))]
           /\ (~mined => receipt_ok /\ decoded)
           /\ (~receipt_ok => decoded)
           /\ Render(s, TRUE, account[s], user_type[s], rs, q)
    /\ UNCHANGED <<auth, coords, pc, pending>>
    /\ UNCHANGED extra

\* A client that takes every transaction whose receipt arrives for a success.
txOutcomeUnchecked(mined, receipt_ok) == IF receipt_ok THEN "ok" ELSE "Error"

\* What the try/except around transact and wait_for_transaction_receipt
\* reports: a reverted transaction raises (the ledger's PreconditionError), a
\* mined one whose receipt does not arrive raises as well.
txOutcome(mined, receipt_ok) ==
    IF ~mined THEN "PreconditionError" ELSE IF receipt_ok THEN "ok" ELSE "Error"

\* ------------------------------------------------------------ accepting
\* A run that renders the buttons of the list it showed before.
acceptOfferedStale(s, r) == r \in Range(availView[s])

\* The run renders "Accept Ride #r" only if r is in the list of available
\* rides it has just fetched.
acceptOffered(s, r) == r \in Range(listAvailable(rides))

\* accept_ride_tab: "Accept Ride #r" pressed.  The run lists the available
\* rides again; the button exists in this run only if r is still listed.
BeginAccept(s, r) ==
    /\ Idle(s)
    /\ authenticated[s]
    /\ "accept" \in TabsOf(user_type[s])
    /\ r \in Range(availView[s])
    /\ result' = [result EXCEPT ![s] = NoResult]
    /\ IF acceptOffered(s, r)
       THEN /\ availView' = [availView EXCEPT ![s] = listAvailable(rides)]
            /\ pc' = [pc EXCEPT ![s] = "accept_tx"]
            /\ pending' = [pending EXCEPT ![s] = r]
            /\ UNCHANGED <<quote, activeView, chatView>>
       ELSE /\ Render(s, TRUE, account[s], user_type[s], rides, 0)
            /\ UNCHANGED <<pc, pending>>
    /\ UNCHANGED <<ledger, auth, coords>>
    /\ UNCHANGED extra

\* accept_ride_tab: the acceptRide transaction of the pending ride.  A mined
\* transaction whose receipt arrives ends the run with st.rerun(); otherwise
\* the error is shown and the rest of the page is rendered.
AcceptTx(s, receipt_ok) ==
    /\ pc[s] = "accept_tx"
    /\ LET r == pending[s]
           caller == txFrom(s)
           mined == acceptRideGuard(r, caller)
           rs == IF mined THEN acceptRideEffect(r, caller) ELSE rides
       IN  /\ rides' = rs
           /\ accepts' = IF mined THEN [accepts EXCEPT ![r] = Append(@, caller)]
                          ELSE accepts
           /\ (~mined => receipt_ok)
           /\ result' = [result EXCEPT ![s] =
                  [op |-> "accept", ride |-> r,
                   res |-> txOutcome(mined, receipt_ok)]]
           /\ IF mined /\ receipt_ok
              THEN Render(s, TRUE, account[s], user_type[s], rs, 0)
              ELSE /\ activeView' = [activeView EXCEPT ![s] = listActive(rs, account[s])]
                   /\ chatView' = [chatView EXCEPT ![s] = listActive(rs, account[s])]
                   /\ UNCHANGED <<quote, availView>>
    /\ pc' = [pc EXCEPT ![s] = "idle"]
    /\ pending' = [pending EXCEPT ![s] = 0]
    /\ UNCHANGED <<balance, escrow, auth, coords>>
    /\ UNCHANGED extra

\* ------------------------------------------------------------ completing
\* A run that renders the buttons of the list it showed before.
completeOfferedStale(s, r) == r \in Range(activeView[s])

\* The run renders "Complete Ride #r" only if r is in the list of the
\* account's active rides it has just fetched.
completeOffered(s, r) == r \in Range(listActive(rides, account[s]))

\* complete_ride_tab: "Complete Ride #r" pressed.  The run renders the accept
\* tab, then lists the account's active rides again.
BeginComplete(s, r) ==
    /\ Idle(s)
    /\ authenticated[s]
    /\ "complete" \in TabsOf(user_type[s])
    /\ r \in Range(activeView[s])
    /\ result' = [result EXCEPT ![s] = NoResult]
    /\ IF completeOffered(s, r)
       THEN /\ availView' = [availView EXCEPT ![s] = listAvailable(rides)]
            /\ activeView' = [activeView EXCEPT ![s] = listActive(rides, account[s])]
            /\ pc' = [pc EXCEPT ![s] = "complete_tx"]
            /\ pending' = [pending EXCEPT ![s] = r]
            /\ UNCHANGED <<quote, chatView>>
       ELSE /\ Render(s, TRUE, account[s], user_type[s], rides, 0)
            /\ UNCHANGED <<pc, pending>>
    /\ UNCHANGED <<ledger, auth, coords>>
    /\ UNCHANGED extra

\* complete_ride_tab: the completeRide transaction of the pending ride.
CompleteTx(s, receipt_ok) ==
    /\ pc[s] = "complete_tx"
    /\ LET r == pending[s]
           caller == txFrom(s)
           mined == completeRideGuard(r, caller)
           rs == IF mined THEN completeRideEffect(r) ELSE rides
       IN  /\ rides' = rs
           /\ escrow' = IF mined THEN escrow - releasedValue(r) ELSE escrow
           /\ balance' = IF mined
                          THEN [balance EXCEPT ![rides[r].driver] = @ + releasedValue(r)]
                          ELSE balance
           /\ (~mined => receipt_ok)
           /\ result' = [result EXCEPT ![s] =
                  [op |-> "complete", ride |-> r,
                   res |-> txOutcome(mined, receipt_ok)]]
           /\ IF mined /\ receipt_ok
              THEN Render(s, TRUE, account[s], user_type[s], rs, 0)
              ELSE /\ chatView' = [chatView EXCEPT ![s] = listActive(rs, account[s])]
                   /\ UNCHANGED <<quote, availView, activeView>>
    /\ pc' = [pc EXCEPT ![s] = "idle"]
    /\ pending' = [pending EXCEPT ![s] = 0]
    /\ UNCHANGED <<accepts, auth, coords>>
    /\ UNCHANGED extra

\* ------------------------------------------------------------ specification
Next ==
    \/ \E s \in Sessions, a \in Accounts : ConnectWallet(s, a)
    \/ \E s \in Sessions, e \in Emails, q \in RouteMeters \cup {0} : Login(s, e, Password, q)
    \/ \E s \in Sessions, e \in Emails \cup {UnknownEmail}, p \in {Password, WrongPassword} :
           LoginRefused(s, e, p)
    \/ \E s \in Sessions : Logout(s)
    \/ \E s \in Sessions : DisconnectWallet(s)
    \/ \E s \in Sessions, q \in RouteMeters \cup {0} : Rerun(s, q)
    \/ \E s \in Sessions, g \in BOOLEAN, q \in RouteMeters \cup {0} : ShowLocations(s, g, q)
    \/ \E s \in Sessions, q \in RouteMeters \cup {0}, ok \in BOOLEAN, dec \in BOOLEAN :
           RequestRide(s, q, ok, dec)
    \/ \E s \in Sessions, r \in 1..MaxRides : BeginAccept(s, r)
    \/ \E s \in Sessions, ok \in BOOLEAN : AcceptTx(s, ok)
    \/ \E s \in Sessions, r \in 1..MaxRides : BeginComplete(s, r)
    \/ \E s \in Sessions, ok \in BOOLEAN : CompleteTx(s, ok)

Spec == Init /\ [][Next]_vars

\* ------------------------------------------------------------ signing up
\* The sessions as setup_session_state leaves them: nobody has signed up.
InitFresh ==
    /\ rides = <<>>
    /\ balance = [a \in Accounts |-> InitBalance]
    /\ escrow = 0
    /\ accepts = <<>>
    /\ authenticated = [s \in Sessions |-> FALSE]
    /\ account = [s \in Sessions |-> ZeroAddress]
    /\ user_type = [s \in Sessions |-> NoRole]
    /\ current_user = [s \in Sessions |-> NoUser]
    /\ users = [s \in Sessions |-> <<>>]
    /\ coords = [s \in Sessions |-> FALSE]
    /\ quote = [s \in Sessions |-> 0]
    /\ availView = [s \in Sessions |-> <<>>]
    /\ activeView = [s \in Sessions |-> <<>>]
    /\ chatView = [s \in Sessions |-> <<>>]
    /\ result = [s \in Sessions |-> NoResult]
    /\ pc = [s \in Sessions |-> "idle"]
    /\ pending = [s \in Sessions |-> 0]
    /\ messages = NoMessages
    /\ listed = NoListing
    /\ trip = NoTrip
    /\ now = 0

\* Connecting, signing up, logging in and out in the first session.
NextAuth ==
    \/ \E a \in Accounts : ConnectWallet(1, a)
    \/ \E e \in Emails, f \in BOOLEAN : Register(1, e, Password, e[1], f)
    \/ \E e \in Emails : Login(1, e, Password, 0)
    \/ \E e \in Emails \cup {UnknownEmail}, p \in {Password, WrongPassword} :
           LoginRefused(1, e, p)
    \/ Logout(1)
    \/ DisconnectWallet(1)

SpecAuth == InitFresh /\ [][NextAuth]_vars

\* Signing up never yields the users the ride-lifecycle specification starts
\* with: TLC refutes this, which shows that Init is a state the sessions reach.
SignedUpUnreachable == users[1] # SignedUp

\* ------------------------------------------------------------ chat
\* Texts typed into the message box, as sequences of characters.
Texts == {<<" ">>, <<"h">>, <<" ", "h", " ">>}

\* A send that stores the text as typed.
stripNothing(t) == t

\* str.strip(): the text without leading and trailing blanks.
RECURSIVE lstrip(_)
lstrip(t) == IF t # <<>> /\ Head(t) = " " THEN lstrip(Tail(t)) ELSE t

RECURSIVE rstrip(_)
rstrip(t) ==
    IF t # <<>> /\ t[Len(t)] = " " THEN rstrip(SubSeq(t, 1, Len(t) - 1)) ELSE t

strip(t) == rstrip(lstrip(t))

\* The run renders the chat box of ride r, with its "Send" button, only if r
\* is among the active rides it has just fetched for the connected account.
chatOffered(s, r) == r \in Range(listActive(rides, account[s]))

\* chat_tab: "Send (Ride #r)" pressed with text in the message box.  A text
\* that is not blank is appended to the session's log of the ride with the
\* connected account as its sender and the time of the clock, and the
\* script is run again.
SendMessage(s, r, text, q) ==
    /\ Idle(s)
    /\ authenticated[s]
    /\ "chat" \in TabsOf(user_type[s])
    /\ r \in Range(chatView[s])
    /\ SumSeq([i \in 1..MaxRides |-> Len(messages[s][i])]) < MaxMsgs
    /\ q \in RouteAnswers(TRUE, user_type[s], coords[s])
    /\ messages' =
          IF chatOffered(s, r) /\ strip(text) # <<>>
          THEN [messages EXCEPT ![s][r] =
                   Append(@, [sender |-> account[s], text |-> strip(text),
                              time |-> now])]
          ELSE messages
    /\ Render(s, TRUE, account[s], user_type[s], rides, q)
    /\ result' = [result EXCEPT ![s] = NoResult]
    /\ UNCHANGED <<ledger, auth, coords, pc, pending, listed, trip, now>>

\* A second passes.
Tick ==
    /\ now < MaxClock
    /\ now' = now + 1
    /\ UNCHANGED <<ledger, auth, coords, views, pc, pending, messages, listed, trip>>

\* One session in which wallets are connected and disconnected, users log in
\* and out, rides are requested, accepted and completed and messages sent.
NextChat ==
    \/ \E a \in Accounts : ConnectWallet(1, a)
    \/ \E e \in Emails, q \in RouteMeters \cup {0} : Login(1, e, Password, q)
    \/ Logout(1)
    \/ DisconnectWallet(1)
    \/ \E g \in BOOLEAN, q \in RouteMeters \cup {0} : ShowLocations(1, g, q)
    \/ \E q \in RouteMeters \cup {0}, ok \in BOOLEAN, dec \in BOOLEAN :
           RequestRide(1, q, ok, dec)
    \/ \E r \in 1..MaxRides : BeginAccept(1, r)
    \/ \E ok \in BOOLEAN : AcceptTx(1, ok)
    \/ \E r \in 1..MaxRides : BeginComplete(1, r)
    \/ \E ok \in BOOLEAN : CompleteTx(1, ok)
    \/ \E r \in 1..MaxRides, t \in Texts, q \in RouteMeters \cup {0} :
           SendMessage(1, r, t, q)

SpecChat == Init /\ [][NextChat]_vars

\* ------------------------------------------------------------ failing lookups
\* What can happen to one getRide call of get_ride_details: it returns, it
\* reverts (ContractLogicError), or it raises anything else.
Faults == {"none", "revert", "error"}

\* get_ride_details when the call may fail: None in both failure cases.
get_ride_detailsFaulty(rs, r, fault) ==
    IF fault = "none" THEN get_ride_details(rs, r) ELSE None

\* The st.error messages of get_ride_details during a loop over ids: one for
\* every lookup that raised something other than ContractLogicError, carrying
\* the text of the exception; a reverted lookup leaves no message.
lookupErrors(ids, faults) ==
    LET raised == SelectSeq(ids, LAMBDA r : faults[r] = "error")
    IN  [i \in 1..Len(raised) |->
            [text |-> "Error fetching ride details", detail |-> "exception"]]

\* The ride identifiers named by the messages of a listing.
ReportedIds(errors) ==
    {e.ride : e \in {x \in Range(errors) : "ride" \in DOMAIN x}}

\* A loop that stops at the first lookup that fails.
RECURSIVE UntilFailure(_, _, _)
UntilFailure(rs, ids, faults) ==
    IF ids = <<>> THEN <<>>
    ELSE IF get_ride_detailsFaulty(rs, Head(ids), faults[Head(ids)]) = None THEN <<>>
    ELSE <<Head(ids)>> \o UntilFailure(rs, Tail(ids), faults)

listingLoopAborting(rs, ids, faults) ==
    [shown |-> UntilFailure(rs, ids, faults),
     errors |-> lookupErrors(ids, faults)]

\* for ride_id in ids: ride = get_ride_details(ride_id); if ride: render it.
listingLoop(rs, ids, faults) ==
    [shown |-> SelectSeq(ids, LAMBDA r :
                   get_ride_detailsFaulty(rs, r, faults[r]) # None),
     errors |-> lookupErrors(ids, faults)]

\* The identifiers each tab's listing gets from the ledger.
tabIds(tab, rs, acct) ==
    IF tab = "accept" THEN getAvailableRides(rs)
    ELSE IF tab = "history" THEN getUserCompletedRides(rs, listingAddress(acct))
    ELSE getUserActiveRides(rs, listingAddress(acct))

\* run(): a re-run of the script in which the lookups of the listing of one
\* tab fail as faults says; the lookups of the other tabs return.
RerunFaulty(s, tab, faults) ==
    /\ Idle(s)
    /\ authenticated[s]
    /\ tab \in TabsOf(user_type[s])
    /\ 0 \in RouteAnswers(TRUE, user_type[s], coords[s])
    /\ LET ids == tabIds(tab, rides, account[s])
           out == listingLoop(rides, ids, faults)
       IN  /\ listed' = [tab |-> tab, ids |-> ids,
                         faults |-> [i \in 1..Len(ids) |-> faults[ids[i]]],
                         shown |-> out.shown, errors |-> out.errors]
           /\ quote' = [quote EXCEPT ![s] = 0]
           /\ availView' = [availView EXCEPT ![s] =
                  IF tab = "accept" THEN out.shown
                  ELSE IF "accept" \in TabsOf(user_type[s]) THEN listAvailable(rides)
                  ELSE <<>>]
           /\ activeView' = [activeView EXCEPT ![s] =
                  IF tab = "complete" THEN out.shown
                  ELSE IF "complete" \in TabsOf(user_type[s])
                  THEN listActive(rides, account[s])
                  ELSE <<>>]
           /\ chatView' = [chatView EXCEPT ![s] =
                  IF tab = "chat" THEN out.shown ELSE listActive(rides, account[s])]
    /\ result' = [result EXCEPT ![s] = NoResult]
    /\ UNCHANGED <<ledger, auth, coords, pc, pending, messages, trip, now>>

\* Ledgers the sessions reach: up to MaxRides rides requested from the
\* passenger's wallet and each still Requested, or Accepted or Completed by
\* the wallet of one of the drivers.
PassengerWallets == {e[2] : e \in {x \in Emails : x[1] = "Passenger"}}
DriverWallets == {e[2] : e \in {x \in Emails : x[1] = "Driver"}}

RideStates ==
    {[passenger |-> p, driver |-> ZeroAddress, distance |-> distanceMeters(m),
      status |-> Requested, fare |-> computeFare(m)] :
        p \in PassengerWallets, m \in RouteMeters}
    \cup
    {[passenger |-> p, driver |-> d, distance |-> distanceMeters(m),
      status |-> st, fare |-> computeFare(m)] :
        p \in PassengerWallets, d \in DriverWallets \ PassengerWallets,
        m \in RouteMeters, st \in {Accepted, Completed}}

\* Sum of the fares of the rides of rs that are Requested or Accepted.
RECURSIVE HeldFares(_)
HeldFares(rs) ==
    IF rs = <<>> THEN 0
    ELSE HeldFares(Tail(rs))
         + (IF Head(rs).status \in {Requested, Accepted} THEN Head(rs).fare ELSE 0)

\* What account a has paid into the escrow and what it has been paid out of it.
Paid(rs, a) ==
    SumSeq([i \in 1..Len(rs) |-> IF rs[i].passenger = a THEN rs[i].fare ELSE 0])
Earned(rs, a) ==
    SumSeq([i \in 1..Len(rs) |->
               IF rs[i].status = Completed /\ rs[i].driver = a THEN rs[i].fare ELSE 0])

Ledgers ==
    {rs \in UNION {[1..n -> RideStates] : n \in 0..MaxRides} :
        \A a \in Accounts : Paid(rs, a) <= InitBalance}

\* The first session logged in while the ledger was empty, as any of the
\* users; the ledger has since been brought to one of Ledgers from the second
\* session, which has disconnected its wallet.
InitListing ==
    /\ rides \in Ledgers
    /\ balance = [a \in Accounts |-> InitBalance - Paid(rides, a) + Earned(rides, a)]
    /\ escrow = HeldFares(rides)
    /\ accepts = [r \in 1..Len(rides) |->
                     IF rides[r].status = Requested THEN <<>> ELSE <<rides[r].driver>>]
    /\ \E e \in Emails :
          /\ account = [s \in Sessions |-> IF s = 1 THEN e[2] ELSE ZeroAddress]
          /\ user_type = [s \in Sessions |-> IF s = 1 THEN e[1] ELSE NoRole]
          /\ current_user = [s \in Sessions |-> IF s = 1 THEN SignedUp[e] ELSE NoUser]
    /\ authenticated = [s \in Sessions |-> s = 1]
    /\ users = [s \in Sessions |-> SignedUp]
    /\ coords = [s \in Sessions |-> s # 1]
    /\ quote = [s \in Sessions |-> 0]
    /\ availView = [s \in Sessions |-> <<>>]
    /\ activeView = [s \in Sessions |-> <<>>]
    /\ chatView = [s \in Sessions |-> <<>>]
    /\ result = [s \in Sessions |-> NoResult]
    /\ pc = [s \in Sessions |-> "idle"]
    /\ pending = [s \in Sessions |-> 0]
    /\ messages = NoMessages
    /\ listed = NoListing
    /\ trip = NoTrip
    /\ now = 0

NextListing ==
    \E tab \in TabsOf("Driver"), faults \in [1..MaxRides -> Faults] :
        RerunFaulty(1, tab, faults)

SpecListing == InitListing /\ [][NextListing]_vars

\* ------------------------------------------------------------ chat logs
\* The chat logs of a session over time: a logged-in user of the first
\* session re-runs the script and sends messages while the clock advances.
NextLog ==
    \/ \E q \in RouteMeters \cup {0} : Rerun(1, q)
    \/ \E r \in 1..MaxRides, t \in Texts, q \in RouteMeters \cup {0} :
           SendMessage(1, r, t, q)
    \/ Tick

SpecLog == InitListing /\ [][NextLog]_vars

\* ------------------------------------------------------------ fare and distance
\* The conversions of request_ride_tab, followed for every routed distance of
\* whole meters up to MaxMeters and for the distances of RouteMeters.
RoutedDistances == (0..MaxMeters) \cup RouteMeters

InitFare ==
    /\ Started
    /\ messages = NoMessages
    /\ listed = NoListing
    /\ trip \in {[routed |-> m, meters |-> 0, fare |-> 0, done |-> FALSE] :
                    m \in RoutedDistances}
    /\ now = 0

\* request_ride_tab: the fare shown for the routed distance and the distance
\* handed to requestRide when "Request Ride" is pressed.
QuoteFare ==
    /\ ~trip.done
    /\ trip' = [routed |-> trip.routed,
                meters |-> distanceMeters(trip.routed),
                fare |-> computeFare(trip.routed),
                done |-> TRUE]
    /\ UNCHANGED <<ledger, auth, coords, views, pc, pending, messages, listed, now>>

NextFare == QuoteFare

SpecFare == InitFare /\ [][NextFare]_vars

\* ------------------------------------------------------------ properties
RideIds == 1..Len(rides)

\* C1: in every step the status of every ride either stays as it is or moves
\* Requested -> Accepted or Accepted -> Completed; no ride is removed.
C1_StatusOnlyForward ==
    [][/\ Len(rides') >= Len(rides)
       /\ \A r \in RideIds :
              \/ rides'[r].status = rides[r].status
              \/ rides[r].status = Requested /\ rides'[r].status = Accepted
              \/ rides[r].status = Accepted /\ rides'[r].status = Completed]_vars

\* A ride has been requested, accepted and completed while another session
\* was about to accept it.
C1_Witness ==
    \E r \in RideIds, s \in Sessions :
        /\ rides[r].status = Completed
        /\ result[s] = [op |-> "accept", ride |-> r, res |-> "PreconditionError"]

C3_AcceptNeedsRequested ==
    [][\A s \in Sessions :
          (/\ pc[s] = "accept_tx"
           /\ pc'[s] = "idle"
           /\ rides[pending[s]].status # Requested)
          => /\ result'[s] = [op |-> "accept", ride |-> pending[s],
                               res |-> "PreconditionError"]
             /\ rides' = rides]_vars

\* An accept by a driver who is not the passenger was turned down on a ride
\* that is already Completed.
C3_Witness ==
    \E r \in RideIds, s \in Sessions :
        /\ result[s] = [op |-> "accept", ride |-> r, res |-> "PreconditionError"]
        /\ account[s] \notin {rides[r].passenger, rides[r].driver}
        /\ rides[r].status = Completed

\* C4: a completeRide transaction sent by a session whose account is not the
\* ride's bound driver (its passenger, or anyone while it is Requested) is
\* turned down with PreconditionError; the rides, the escrow and the balances
\* stay as they were.
C4_CompleteNeedsDriver ==
    [][\A s \in Sessions :
          (/\ pc[s] = "complete_tx"
           /\ pc'[s] = "idle"
           /\ account[s] # rides[pending[s]].driver)
          => /\ result'[s] = [op |-> "complete", ride |-> pending[s],
                               res |-> "PreconditionError"]
             /\ rides' = rides
             /\ escrow' = escrow
             /\ balance' = balance]_vars

\* The passenger of a ride that is still Requested pressed "Complete" for it
\* and was turned down; the fare is still in escrow.
C4_Witness ==
    \E r \in RideIds, s \in Sessions :
        /\ result[s] = [op |-> "complete", ride |-> r, res |-> "PreconditionError"]
        /\ account[s] = rides[r].passenger
        /\ rides[r].status = Requested
        /\ escrow >= rides[r].fare

\* C5: the driver of a ride, as get_ride_details returns it, is the unset
\* address exactly when the ride's status is Requested.
C5_DriverUnsetIffRequested ==
    \A r \in RideIds :
        get_ride_details(rides, r).driver = ZeroAddress
            <=> get_ride_details(rides, r).status = Requested

\* One ride is still Requested while another has a driver bound.
C5_Witness ==
    \E r1 \in RideIds, r2 \in RideIds :
        /\ rides[r1].status = Requested
        /\ rides[r1].driver = ZeroAddress
        /\ rides[r2].status = Accepted
        /\ rides[r2].driver \in Accounts

\* C6: no step changes the fare, the passenger or the distance of a ride, and
\* no step changes any field of a ride that is Completed.
C6_FareFixedCompletedFrozen ==
    [][\A r \in RideIds :
          /\ rides'[r].fare = rides[r].fare
          /\ rides'[r].passenger = rides[r].passenger
          /\ rides'[r].distance = rides[r].distance
          /\ rides[r].status = Completed => rides'[r] = rides[r]]_vars

\* A ride was completed from one session, and the same driver's other
\* session, which had listed it as active, then tried to complete it again.
C6_Witness ==
    \E r \in RideIds, s \in Sessions, t \in Sessions :
        /\ rides[r].status = Completed
        /\ rides[r].fare = computeFare(rides[r].distance)
        /\ result[s] = [op |-> "complete", ride |-> r, res |-> "ok"]
        /\ result[t] = [op |-> "complete", ride |-> r, res |-> "PreconditionError"]

\* C7: a ride is created only in a step of a session whose run obtained a
\* route in that step, with the distance and fare of that route; a run whose
\* routing request fails leaves rides, escrow and balances as they were.
C7_NoLedgerCallWithoutRoute ==
    [][/\ Len(rides') > Len(rides) =>
            \E s \in Sessions :
                /\ quote'[s] # 0
                /\ result'[s].op = "request"
                /\ rides'[Len(rides')].passenger = account[s]
                /\ rides'[Len(rides')].distance = distanceMeters(quote'[s])
                /\ rides'[Len(rides')].fare = computeFare(quote'[s])
       /\ \A s \in Sessions :
            (result'[s].res = "ProviderUnavailable" /\ result[s].res # "ProviderUnavailable")
            => /\ rides' = rides
               /\ escrow' = escrow
               /\ balance' = balance]_vars

\* "Request Ride" was pressed with a route on screen, and the routing request
\* of the run failed: nothing is escrowed.
C7_Witness ==
    \E s \in Sessions :
        /\ result[s] = [op |-> "request", ride |-> 0, res |-> "ProviderUnavailable"]
        /\ coords[s]
        /\ escrow = 0
        /\ rides = <<>>

\* C8: a step that creates a ride (and escrows its fare) tells the requesting
\* session either the new ride's identifier or an EventDecodeError; a step
\* that shows a ride identifier created that ride and escrowed its fare; a
\* request reported as a plain error moved nothing.
C8_EscrowAlwaysReported ==
    [][/\ Len(rides') > Len(rides) =>
            \A s \in Sessions :
                chatView'[s] # chatView[s] =>
                    \/ result'[s] = [op |-> "request", ride |-> Len(rides'), res |-> "ok"]
                    \/ result'[s] = [op |-> "request", ride |-> 0, res |-> "EventDecodeError"]
       /\ \A s \in Sessions :
            (result'[s].op = "request" /\ result'[s].res = "ok" /\ result'[s] # result[s])
            => /\ Len(rides') = Len(rides) + 1
               /\ result'[s].ride = Len(rides')
               /\ rides'[Len(rides')].passenger = account[s]
               /\ escrow' = escrow + rides'[Len(rides')].fare
       /\ \A s \in Sessions :
            (result'[s].op = "request" /\ result'[s].res = "Error" /\ result'[s] # result[s])
            => rides' = rides /\ escrow' = escrow]_vars

\* C9: the rides a session is shown in its complete-ride and chat tabs, and
\* the rides listActive returns for any address, all have that address as
\* passenger or driver.
C9_ActiveListOnlyOwnRides ==
    /\ \A s \in Sessions :
          \A r \in Range(activeView[s]) \cup Range(chatView[s]) :
              /\ r \in RideIds
              /\ account[s] \in {rides[r].passenger, rides[r].driver}
    /\ \A a \in Accounts :
          \A r \in Range(listActive(rides, a)) :
              a \in {rides[r].passenger, rides[r].driver}

\* A driver is shown the ride they accepted while another active ride, of
\* which they are no part, is not in their list.
C9_Witness ==
    \E s \in Sessions, r \in RideIds, o \in RideIds :
        /\ r \in Range(activeView[s])
        /\ r \in Range(chatView[s])
        /\ rides[r].driver = account[s]
        /\ rides[o].status \in {Requested, Accepted}
        /\ account[s] \notin {rides[o].passenger, rides[o].driver}
        /\ o \notin Range(activeView[s])

\* C10: the available listing holds exactly the Requested rides; the active
\* listing of an address exactly the Requested or Accepted rides it is
\* passenger or driver of; the completed listing only Completed rides; no
\* ride is in the active and the completed listing of one address; and a
\* ride that has left the available listing never returns to it.
C10_ListingsFollowStatus ==
    /\ [](\A r \in RideIds :
            /\ r \in Range(listAvailable(rides)) <=> rides[r].status = Requested
            /\ \A a \in Accounts :
                  /\ r \in Range(listActive(rides, a))
                        <=> /\ rides[r].status \in {Requested, Accepted}
                            /\ a \in {rides[r].passenger, rides[r].driver}
                  /\ r \in Range(listCompleted(rides, a))
                        => rides[r].status = Completed
                  /\ ~ (/\ r \in Range(listActive(rides, a))
                         /\ r \in Range(listCompleted(rides, a))))
    /\ [][\A r \in RideIds :
            r \notin Range(listAvailable(rides)) => r \notin Range(listAvailable(rides'))]_vars

\* A driver has completed one ride, which is in their history and not in
\* their active list, and is offered the other, still Requested ride.
C10_Witness ==
    \E s \in Sessions, r \in RideIds, o \in RideIds :
        /\ user_type[s] = "Driver"
        /\ rides[r].status = Completed
        /\ rides[r].driver = account[s]
        /\ r \in Range(listCompleted(rides, account[s]))
        /\ r \notin Range(activeView[s])
        /\ rides[o].status = Requested
        /\ availView[s] = <<o>>

\* C13: a session whose accept is turned down because the ride is no longer
\* Requested ends that run with the available rides fetched again, so that
\* the ride is no longer offered to it.
C13_LoserRefetches ==
    [][\A s \in Sessions :
          (/\ pc[s] = "accept_tx"
           /\ pc'[s] = "idle"
           /\ result'[s].res = "PreconditionError"
           /\ account[s] # rides[pending[s]].passenger
           /\ rides[pending[s]].status # Requested)
          => /\ pending[s] \notin Range(availView'[s])
             /\ availView'[s] = listAvailable(rides')]_vars

\* C17: the driver of a ride is never its passenger, and an acceptRide sent
\* from the passenger's account is turned down with PreconditionError and
\* leaves the ride Requested without a driver.
C17_DriverNeverPassenger ==
    /\ [](\A r \in RideIds : rides[r].driver # rides[r].passenger)
    /\ [][\A s \in Sessions :
            (/\ pc[s] = "accept_tx"
             /\ pc'[s] = "idle"
             /\ account[s] = rides[pending[s]].passenger)
            => /\ result'[s] = [op |-> "accept", ride |-> pending[s],
                                 res |-> "PreconditionError"]
               /\ rides' = rides]_vars

\* The owner of wallet 1, logged in as a driver, pressed "Accept" for the
\* ride requested from that wallet and was turned down; the ride is still
\* Requested and has no driver.
C17_Witness ==
    \E r \in RideIds, s \in Sessions :
        /\ result[s] = [op |-> "accept", ride |-> r, res |-> "PreconditionError"]
        /\ account[s] = rides[r].passenger
        /\ user_type[s] = "Driver"
        /\ rides[r].status = Requested
        /\ rides[r].driver = ZeroAddress

\* C18: a run goes on to send acceptRide (completeRide) only for a ride that
\* is in the list of available rides (of the account's active rides) read
\* from the ledger in that same step, and the view it shows is that list.
C18_RequeriedBeforeCall ==
    [][\A s \in Sessions :
          /\ (pc[s] = "idle" /\ pc'[s] = "accept_tx")
             => /\ rides[pending'[s]].status = Requested
                /\ availView'[s] = listAvailable(rides)
          /\ (pc[s] = "idle" /\ pc'[s] = "complete_tx")
             => /\ rides[pending'[s]].status \in {Requested, Accepted}
                /\ account[s] \in {rides[pending'[s]].passenger,
                                   rides[pending'[s]].driver}
                /\ activeView'[s] = listActive(rides, account[s])]_vars

\* One session is about to send acceptRide for ride 2, having listed only
\* ride 2 because ride 1 is already Accepted, while the other session is
\* about to send completeRide for ride 1.
C18_Witness ==
    \E s \in Sessions, t \in Sessions :
        /\ Len(rides) = 2
        /\ pc[s] = "accept_tx"
        /\ pending[s] = 2
        /\ availView[s] = <<2>>
        /\ rides[1].status = Accepted
        /\ pc[t] = "complete_tx"
        /\ pending[t] = 1

\* C19: a run goes on to send completeRide only for a ride that is Accepted
\* and whose driver is the connected account, and to send acceptRide only
\* for a ride that is Requested and whose passenger is not the connected
\* account.
C19_PreconditionValidated ==
    [][\A s \in Sessions :
          /\ (pc[s] = "idle" /\ pc'[s] = "complete_tx")
             => /\ rides[pending'[s]].status = Accepted
                /\ rides[pending'[s]].driver = account[s]
          /\ (pc[s] = "idle" /\ pc'[s] = "accept_tx")
             => /\ rides[pending'[s]].status = Requested
                /\ rides[pending'[s]].passenger # account[s]]_vars

RECURSIVE TotalBalance(_)
TotalBalance(as) ==
    IF as = {} THEN 0
    ELSE LET a == CHOOSE x \in as : TRUE
         IN  balance[a] + TotalBalance(as \ {a})

\* C20: the escrow equals the fares of the rides that are Requested or
\* Accepted and no value appears or disappears; creating a ride moves its
\* fare from the passenger to the escrow, completing a ride moves its fare
\* from the escrow to its driver, and no other step moves any value.
C20_ValueConserved ==
    /\ [](/\ escrow = HeldFares(rides)
          /\ escrow + TotalBalance(Accounts) = NumAccounts * InitBalance)
    /\ [][/\ Len(rides') > Len(rides) =>
               LET n == rides'[Len(rides')]
               IN  /\ escrow' = escrow + n.fare
                   /\ balance' = [balance EXCEPT ![n.passenger] = @ - n.fare]
          /\ \A r \in RideIds :
               (rides[r].status # Completed /\ rides'[r].status = Completed)
               => /\ escrow' = escrow - rides[r].fare
                  /\ balance' = [balance EXCEPT ![rides[r].driver] = @ + rides[r].fare]
          /\ (/\ Len(rides') = Len(rides)
              /\ \A r \in RideIds :
                    rides[r].status = Completed \/ rides'[r].status # Completed)
             => escrow' = escrow /\ balance' = balance]_vars

\* Of two rides requested from wallet 1, one has been completed and paid to
\* its driver while the fare of the other is still held.
C20_Witness ==
    \E r \in RideIds, o \in RideIds :
        /\ rides[r].status = Completed
        /\ balance[rides[r].driver] = InitBalance + rides[r].fare
        /\ rides[o].status \in {Requested, Accepted}
        /\ escrow = rides[o].fare
        /\ balance[rides[o].passenger] = InitBalance - rides[r].fare - rides[o].fare

\* C14: a routed distance of m whole meters is handed to requestRide as
\* m meters with a value of m / 10000 ether (m units of 10^14 wei); a route
\* of 10 km gives 10000 meters and exactly 1 ether.
C14_FareAndDistanceExact ==
    trip.done =>
        /\ trip.meters = trip.routed
        /\ trip.fare * 1000 = trip.routed * FarePerKm
        /\ trip.routed = 10000 => (trip.meters = 10000 /\ trip.fare = 10 * FarePerKm)

C11_FailedLookupSkipsOnlyItself ==
    listed.tab # "none" =>
        /\ \A i \in 1..Len(listed.ids) :
              listed.faults[i] = "none" => listed.ids[i] \in Range(listed.shown)
        /\ listed.shown =
              SelectSeq(listed.ids, LAMBDA r :
                  \E i \in 1..Len(listed.ids) :
                      listed.ids[i] = r /\ listed.faults[i] = "none")

\* The lookup of the first of two listed rides failed and the second ride
\* is shown.
C11_Witness ==
    /\ listed.tab # "none"
    /\ Len(listed.ids) = 2
    /\ listed.faults[1] # "none"
    /\ listed.faults[2] = "none"
    /\ listed.shown = <<listed.ids[2]>>

\* C12: every identifier whose lookup failed during a listing is named by
\* one of the messages the listing leaves.
C12_FailedIdsReported ==
    listed.tab # "none" =>
        \A i \in 1..Len(listed.ids) :
            listed.faults[i] # "none" => listed.ids[i] \in ReportedIds(listed.errors)

\* C16: the chat boxes a session shows are those of rides whose passenger or
\* driver is the connected account, and a step that changes a ride's log
\* appends one message whose sender is the connected account, which the
\* ledger lists as passenger or driver of that active ride in that step.
C16_ChatOnlyParticipants ==
    /\ [](\A s \in Sessions :
            \A r \in Range(chatView[s]) :
                /\ r \in RideIds
                /\ account[s] \in {rides[r].passenger, rides[r].driver})
    /\ [][\A s \in Sessions :
            \A r \in 1..MaxRides :
                messages'[s][r] # messages[s][r]
                => /\ r \in RideIds
                   /\ account[s] \in {getRide(rides, r)[1], getRide(rides, r)[2]}
                   /\ r \in Range(getUserActiveRides(rides, account[s]))
                   /\ \E t \in Texts :
                         messages'[s][r] =
                             Append(messages[s][r],
                                    [sender |-> account[s], text |-> strip(t),
                                     time |-> now])]_vars

\* After a participant of ride 1 has written in its chat, the wallet of the
\* session was switched to an account that is neither passenger nor driver
\* of the ride, which is still active: the session holds the log and does
\* not show the chat box.
C16_Witness ==
    /\ Len(rides) >= 1
    /\ messages[1][1] # <<>>
    /\ rides[1].status \in {Requested, Accepted}
    /\ user_type[1] = "Driver"
    /\ account[1] \notin {rides[1].passenger, rides[1].driver}
    /\ 1 \notin Range(chatView[1])

\* C21: in every step, every chat log of every session either stays as it
\* is or gets one entry appended at its end, whose sender is the session's
\* connected account, whose text is a typed text without its leading and
\* trailing blanks and is not empty, and whose time is the present; at most
\* one log changes in a step.
C21_ChatLogAppendOnly ==
    [][\A s \in Sessions :
          \A r \in 1..MaxRides :
              \/ messages'[s][r] = messages[s][r]
              \/ /\ \E t \in Texts :
                       /\ strip(t) # <<>>
                       /\ messages'[s][r] =
                              Append(messages[s][r],
                                     [sender |-> account[s], text |-> strip(t),
                                      time |-> now])
                 /\ LET text == messages'[s][r][Len(messages'[s][r])].text
                    IN  Head(text) # " " /\ text[Len(text)] # " "
                 /\ \A s2 \in Sessions :
                       \A r2 \in 1..MaxRides :
                           (s2 # s \/ r2 # r) => messages'[s2][r2] = messages[s2][r2]]_vars

\* A passenger with two active rides has sent two messages a second apart
\* in the chat of the first ride; the log of the second ride is empty.
C21_Witness ==
    /\ Len(rides) = 2
    /\ account[1] = rides[1].passenger
    /\ account[1] = rides[2].passenger
    /\ rides[2].status \in {Requested, Accepted}
    /\ Len(messages[1][1]) = 2
    /\ messages[1][1][1].time < messages[1][1][2].time
    /\ messages[1][1][2].text = <<"h">>
    /\ messages[1][2] = <<>>

\* C22: a session with a role has a wallet connected, and its account is the
\* wallet stored for the logged-in user, who is one of the session's users
\* with that role; a step sets a role only for a user whose stored wallet is
\* the connected account; a step that disconnects the wallet clears the role.
C22_RoleImpliesRegisteredWallet ==
    /\ [](\A s \in Sessions :
            user_type[s] \in Roles
            => /\ authenticated[s]
               /\ current_user[s] # NoUser
               /\ account[s] = current_user[s].wallet
               /\ user_type[s] = current_user[s].role
               /\ \E e \in DOMAIN users[s] : users[s][e] = current_user[s])
    /\ [][\A s \in Sessions :
            /\ (user_type[s] = NoRole /\ user_type'[s] \in Roles)
               => /\ authenticated[s]
                  /\ account'[s] = account[s]
                  /\ \E e \in DOMAIN users[s] :
                        /\ users[s][e].wallet = account[s]
                        /\ users[s][e].role = user_type'[s]
                        /\ current_user'[s] = users[s][e]
            /\ (authenticated[s] /\ ~authenticated'[s])
               => user_type'[s] = NoRole /\ current_user'[s] = NoUser]_vars

\* A driver is logged in with wallet 2 in a session in which another user
\* signed up with wallet 3 and a third with wallet 1.
C22_Witness ==
    /\ user_type[1] = "Driver"
    /\ account[1] = 2
    /\ current_user[1].wallet = 2
    /\ \E e \in DOMAIN users[1] : users[1][e].wallet = 3
    /\ \E e \in DOMAIN users[1] : users[1][e].wallet = 1

\* C23: a session that is sending acceptRide or completeRide, or shows the
\* outcome of one, has a wallet connected and is logged in as a Driver; one
\* that shows the outcome of a requestRide is logged in as a Passenger; and
\* every step that changes the ledger is taken by such a session: a new ride
\* has the account of a logged-in Passenger's session as its passenger, a
\* ride is accepted or completed in a step of a logged-in Driver's session
\* that was sending that transaction.
C23_TransactionsGatedByRole ==
    /\ [](\A s \in Sessions :
            /\ (pc[s] # "idle" \/ result[s].op \in {"accept", "complete"})
               => /\ authenticated[s]
                  /\ account[s] # ZeroAddress
                  /\ user_type[s] = "Driver"
            /\ result[s].op = "request"
               => /\ authenticated[s]
                  /\ account[s] # ZeroAddress
                  /\ user_type[s] = "Passenger")
    /\ [][/\ Len(rides') > Len(rides)
             => \E s \in Sessions :
                   /\ authenticated[s]
                   /\ user_type[s] = "Passenger"
                   /\ rides'[Len(rides')].passenger = account[s]
                   /\ result'[s].op = "request"
          /\ \A r \in RideIds :
                rides'[r].status # rides[r].status
                => \E s \in Sessions :
                      /\ authenticated[s]
                      /\ user_type[s] = "Driver"
                      /\ pc[s] \in {"accept_tx", "complete_tx"}
                      /\ pending[s] = r
                      /\ pc'[s] = "idle"
          /\ (\A s \in Sessions : ~authenticated[s] \/ user_type[s] = NoRole)
             => UNCHANGED ledger]_vars

\* One session, logged in as a Passenger, has just been given the identifier
\* of its ride while the other, logged in as a Driver, was turned down by
\* the ledger.
C23_Witness ==
    \E s \in Sessions, t \in Sessions :
        /\ user_type[s] = "Passenger"
        /\ result[s].op = "request"
        /\ result[s].res = "ok"
        /\ user_type[t] = "Driver"
        /\ result[t].op \in {"accept", "complete"}
        /\ result[t].res = "PreconditionError"

====
